---- MODULE Spec2Model ----
(***************************************************************************)
(* Model of digitalSignatureDeclaration: the category detector (utils.py), *)
(* the declaration pipeline (signing.py) and the desktop form (gui.py).    *)
(*                                                                         *)
(* Text is a sequence of one-character strings, so that reversal,          *)
(* substring search and replacement are computed character by character.   *)
(* Hebrew letters are written in Latin transliteration.                    *)
(***************************************************************************)
EXTENDS Integers, Sequences, FiniteSets, TLC

VARIABLES
    doc,             \* utils: extracted text of each page of the scanned file
    detected,        \* utils: result of detect_declaration_type, "" before the call
    line,            \* signing: argument line of process_hebrew_text
    current_date,    \* signing: argument current_date of process_hebrew_text
    processed_line,  \* signing: result of process_hebrew_text, <<"?">> before the call
    declarator_name,    \* signing: argument of generate_declaration_text
    id_number,          \* signing: argument of generate_declaration_text
    declarator_gender,  \* signing: argument of generate_declaration_text
    declaration_text_lines, \* signing: result of generate_declaration_text, <<>> before the call
    pc,                 \* sign_declaration: the step about to run, "done" or "failed"
    source_pages,       \* the pages of the document at input_pdf_path
    declaration_type,   \* sign_declaration: argument declaration_type
    fault,              \* the one step of this run that the environment makes fail, or "none"
    overlay,            \* the page drawn by create_declaration_pdf
    merged_file,        \* the file signed_declaration.pdf
    output_file,        \* the file <output_folder>/final_output_with_signature.pdf
    old_output_found,   \* the value of os.path.isfile(output_pdf_path) in sign_declaration
    images,             \* add_signatures: the rasterized pages
    trace,              \* the steps of sign_declaration started so far, in order
    error,              \* the exception raised out of sign_declaration, "" if none
    returned,           \* the path returned by sign_declaration, "" if none
    entry_name,         \* gui: the text of the Name entry
    entry_id,           \* gui: the text of the ID entry
    file_path,          \* gui: the selected declaration file, "" for None or a cancelled dialog
    output_folder,      \* gui: the selected output folder, "" if none
    radio_declaration_type_var,  \* gui: the Company / Person radio variable
    radio_gender_var,   \* gui: the Male / Female radio variable
    app_data,           \* the file app_data.json
    sign_call,          \* gui: the arguments of the latest call of sign_declaration
    outcome,            \* gui: how the latest press of Begin ended
    submissions,        \* gui: the number of presses of Begin
    save_count,         \* gui: the number of times save_data wrote app_data.json
    sign_count          \* gui: the number of calls of sign_declaration

detectVars == <<doc, detected>>
textVars == <<line, current_date, processed_line>>
composerVars == <<declarator_name, id_number, declarator_gender, declaration_text_lines>>
pipelineVars ==
    <<pc, source_pages, declaration_type, fault, overlay, merged_file, output_file,
      old_output_found, images, trace, error, returned>>
guiVars ==
    <<entry_name, entry_id, file_path, output_folder, radio_declaration_type_var,
      radio_gender_var, app_data, sign_call, outcome, submissions, save_count, sign_count>>
vars == <<detectVars, textVars, composerVars, pipelineVars, guiVars>>

----------------------------------------------------------------------------
(* Bounds *)

MaxPages == 3
MaxLineLen == 5
MaxDateLen == 2

----------------------------------------------------------------------------
(* Strings *)

\* line[::-1]
Reverse(s) == [i \in 1..Len(s) |-> s[Len(s) + 1 - i]]

\* sub occurs in s starting at index i
MatchAt(s, sub, i) ==
    /\ i >= 1
    /\ i + Len(sub) - 1 <= Len(s)
    /\ SubSeq(s, i, i + Len(sub) - 1) = sub

\* Python's  sub in s
Contains(s, sub) == \E i \in 1..(Len(s) + 1) : MatchAt(s, sub, i)

\* Python's str.replace for a non-empty old: scan left to right, replace each
\* match and continue after it (matches never overlap)
RECURSIVE ReplaceFrom(_, _, _, _)
ReplaceFrom(s, old, new, i) ==
    IF i > Len(s) THEN <<>>
    ELSE IF MatchAt(s, old, i) THEN new \o ReplaceFrom(s, old, new, i + Len(old))
    ELSE <<s[i]>> \o ReplaceFrom(s, old, new, i + 1)

Replace(s, old, new) == ReplaceFrom(s, old, new, 1)

\* all sequences over S of length lo..hi
SeqsOf(S, lo, hi) == UNION {[1..n -> S] : n \in lo..hi}

----------------------------------------------------------------------------
(* utils.py: detect_declaration_type *)

\* 'prty hxbrh hswkrt' (details of the renting company)
CompanyMarker ==
    <<"p","r","t","y"," ","h","x","b","r","h"," ","h","s","w","k","r","t">>

\* 'zr' (foreign)
ForeignerMarker == <<"z","r">>

RECURSIVE DetectFrom(_, _)
DetectFrom(pages, page_num) ==
    IF page_num > Len(pages) THEN "israeli"
    ELSE IF Contains(pages[page_num], CompanyMarker) THEN "company"
    ELSE IF Contains(pages[page_num], ForeignerMarker) THEN "foreigner"
    ELSE DetectFrom(pages, page_num + 1)

detect_declaration_type(pages) == DetectFrom(pages, 1)

\* page texts the scanned documents are built from
PageTexts ==
    { <<>>,
      <<"s","k","r">>,
      <<"z","x","r">>,
      <<"x","z","r","x">>,
      CompanyMarker,
      SubSeq(CompanyMarker, 1, Len(CompanyMarker) - 1),
      CompanyMarker \o <<" ">> \o ForeignerMarker,
      ForeignerMarker \o <<" ">> \o CompanyMarker }

Documents == SeqsOf(PageTexts, 0, MaxPages)

DetectIdle == doc = <<>> /\ detected = ""

InitDetect ==
    /\ doc \in Documents
    /\ detected = ""

DetectCall ==
    /\ detected = ""
    /\ detected' = detect_declaration_type(doc)
    /\ UNCHANGED <<doc, textVars, composerVars, pipelineVars, guiVars>>

----------------------------------------------------------------------------
(* signing.py: process_hebrew_text *)

process_hebrew_text_no_restore(l, d) == Reverse(l)

process_hebrew_text(l, d) == Replace(Reverse(l), Reverse(d), d)

TextAlphabet == {"1", "2", "-"}

NotCalled == <<"?">>

TextIdle == line = <<>> /\ current_date = <<>> /\ processed_line = NotCalled

InitText ==
    /\ line \in SeqsOf(TextAlphabet, 0, MaxLineLen)
    /\ current_date \in SeqsOf(TextAlphabet, 1, MaxDateLen)
    /\ processed_line = NotCalled

ProcessLine ==
    /\ processed_line = NotCalled
    /\ processed_line' = process_hebrew_text(line, current_date)
    /\ UNCHANGED <<line, current_date, detectVars, composerVars, pipelineVars, guiVars>>

----------------------------------------------------------------------------
(* signing.py: generate_declaration_text *)

\* the letters of the gender strings, lower case and upper case
LetterCases ==
    { <<"a","A">>, <<"e","E">>, <<"f","F">>, <<"l","L">>, <<"m","M">>,
      <<"n","N">>, <<"o","O">>, <<"r","R">>, <<"t","T">>, <<"h","H">> }

\* str.lower, character by character
LowerChar(c) ==
    IF \E p \in LetterCases : p[2] = c
    THEN (CHOOSE p \in LetterCases : p[2] = c)[1]
    ELSE c

Lower(s) == [i \in 1..Len(s) |-> LowerChar(s[i])]

Male == <<"m","a","l","e">>
Female == <<"f","e","m","a","l","e">>

MaleTerms ==
    [title |-> <<"m","r">>, known |-> <<"h","m","w","k","r">>, warned |-> <<"s","h","w","z","h","r">>,
     pronoun |-> <<"a","l","y","w">>, expected |-> <<"t","s","p","w","y">>,
     confirmed |-> <<"a","y","s","h","r">>, signed |-> <<"x","t","m">>]

FemaleTerms ==
    [title |-> <<"g","b">>, known |-> <<"h","m","w","k","r","t">>,
     warned |-> <<"s","h","w","z","h","r","h">>, pronoun |-> <<"a","l","y","h">>,
     expected |-> <<"t","s","p","w","y","h">>, confirmed |-> <<"a","y","s","h","r","h">>,
     signed |-> <<"x","t","m","h">>]

gender_terms == (Male :> MaleTerms) @@ (Female :> FemaleTerms)

\* dict.get(key, default)
Get(d, key, default) == IF key \in DOMAIN d THEN d[key] ELSE default

TermsFor_no_lower(gender) == Get(gender_terms, gender, gender_terms[Male])

TermsFor(gender) == Get(gender_terms, Lower(gender), gender_terms[Male])

\* the fixed text of the eight lines, in transliteration
Sp == <<" ">>
Text1a == <<" ","h","r","y","n","y"," ","m","a","s","h","r","t"," ","k","y"," ","b","y","w","m"," ">>
Text1b == <<" ","h","w","p","y","a"," ","b","p","n","y"," ">>
Text2 == <<"a","w","d"," ","m","y","r","y"," ","r","z"," ","b","m","s","h","r","d","y"," ","s","h","b","r","x","w","b"," ","h","s","h","r","w","n"," ","1"," ","q","r","y","y","t"," ","s","h","d","h"," ","h","t","a","w","p","h">>
Text3a == <<" ","t",".","z"," ">>
Text3b == <<" ","l","y"," ","a","y","s","h","y","t",",">>
Text4a == <<"w","l","a","x","r"," ">>
Text4b == <<" ","k","y"," ">>
Text4c == <<" ","l","a","m","r"," ","a","t"," ","h","a","m","t"," ","a","x","r","t"," ","y","h","y","h">>
Text5 == <<" ","l","a","w","n","s","h","y","m"," ","h","q","b","w","a","y","m"," ","b","x","w","q"," ","a","m"," ","l","a"," ","y","a","a","s","h"," ","k","n",",">>
Text6a == <<" ","a","t"," ","n","k","w","n","w","t"," ","h","h","t","s","h","r","h"," ",")"," ">>
Text6b == <<" ","a","l","y","h"," ","b","p","n","y"," ","(">>
Text7 == <<"*","*","*","*","*","*","*","*","*","*","*","*","*","*","*","*","*","*","*","*","*","*","*","*","*","*","*","*","*","*","*","*","*","*","*","*","*","*">>
Text8 == <<"m","y","r","y"," ","r","z"," ","y","w","q","l"," ","m",".","r"," ","2","3","1","4","5">>

declaration_text_lines_of(terms, date, name, id) ==
    << Text1a \o date \o Text1b,
       Text2,
       terms.title \o Sp \o name \o Text3a \o id \o Sp \o terms.known \o Text3b,
       Text4a \o terms.warned \o Text4b \o terms.pronoun \o Text4c,
       terms.expected \o Text5,
       terms.confirmed \o Text6a \o terms.signed \o Text6b,
       Text7,
       Text8 >>

generate_declaration_text(date, name, id, gender) ==
    declaration_text_lines_of(TermsFor(gender), date, name, id)

\* a letter in lower case and in upper case
BothCases(c) == {c} \cup {p[2] : p \in {q \in LetterCases : q[1] = c}}

\* the spellings of a word in every mix of upper and lower case
RECURSIVE CaseVariants(_)
CaseVariants(word) ==
    IF word = <<>> THEN {<<>>}
    ELSE {<<c>> \o rest : c \in BothCases(Head(word)), rest \in CaseVariants(Tail(word))}

Genders ==
    CaseVariants(Male) \cup CaseVariants(Female)
        \cup { <<>>, <<"f">>, <<"m","a","n">>, <<"o","t","h","e","r">>,
               <<"f","e","m","a","l","e"," ">> }

Names == {<<"a","v","i">>, <<"d","a","n","a">>}
Identifiers == {<<"1","2","3","4","5","6","7","8","9">>}
Dates == {<<"0","5","-","1","1","-","2","0","2","6">>, <<"1","1","-","1","1","-","2","0","1","1">>}

ComposerIdle ==
    /\ declarator_name = <<>>
    /\ id_number = <<>>
    /\ declarator_gender = <<>>
    /\ declaration_text_lines = <<>>

InitComposer ==
    /\ declarator_name \in Names
    /\ id_number \in Identifiers
    /\ declarator_gender \in Genders
    /\ declaration_text_lines = <<>>

Compose ==
    /\ declaration_text_lines = <<>>
    /\ \E date \in Dates :
          declaration_text_lines' =
              generate_declaration_text(date, declarator_name, id_number, declarator_gender)
    /\ UNCHANGED <<declarator_name, id_number, declarator_gender, detectVars, textVars, pipelineVars, guiVars>>

----------------------------------------------------------------------------
(* Page sizes: rational numbers <<numerator, denominator>> of hundredths of  *)
(* a point, kept in lowest terms.  The floats of the code are modelled by    *)
(* exact rationals.                                                          *)

RECURSIVE GCD(_, _)
GCD(a, b) == IF b = 0 THEN a ELSE GCD(b, a % b)

RatMul(a, b) ==
    LET g1 == GCD(a[1], b[2])
        g2 == GCD(b[1], a[2])
    IN  <<(a[1] \div g1) * (b[1] \div g2), (a[2] \div g2) * (b[2] \div g1)>>

RatDiv(a, b) == RatMul(a, <<b[2], b[1]>>)

Int2Rat(n) == <<n, 1>>

\* desired_width and desired_height, in hundredths of a point
desired_width == 59528
desired_height == 84189

\* pdf2image rasterizes at 200 dots per inch unless told otherwise; a point
\* is 1/72 inch, and Pillow writes a PDF page of one point per pixel
RasterDpi == 200
PointsPerInch == 72

A4 == [w |-> Int2Rat(59528), h |-> Int2Rat(84189)]
Letter == [w |-> Int2Rat(61200), h |-> Int2Rat(79200)]
PageSizes == {A4, Letter}

----------------------------------------------------------------------------
(* signing.py: the steps of sign_declaration *)

SourcePage(size, i) ==
    [w |-> size.w, h |-> size.h, layers |-> <<[kind |-> "source", page |-> i]>>,
     pastes |-> <<>>]

SourceDocuments ==
    {[i \in 1..Len(sizes) |-> SourcePage(sizes[i], i)] :
        sizes \in SeqsOf(PageSizes, 0, MaxPages)}

NoFile == [exists |-> FALSE, origin |-> "none", complete |-> FALSE, pages |-> <<>>]

OldOutput ==
    [exists |-> TRUE, origin |-> "old", complete |-> TRUE,
     pages |-> <<[w |-> A4.w, h |-> A4.h, layers |-> <<[kind |-> "old", page |-> 1]>>,
                  pastes |-> <<>>]>>]

WrittenFile(pages) ==
    [exists |-> TRUE, origin |-> "run", complete |-> TRUE, pages |-> pages]

\* a file opened for writing whose write failed part-way
BrokenFile == [exists |-> TRUE, origin |-> "run", complete |-> FALSE, pages |-> <<>>]

Faults ==
    {"none", "font", "source_unreadable", "write_merged", "remove", "raster",
     "asset", "write_stamped", "write_final"}

DeclarationTypes == {"company", "foreigner", "israeli", "person"}

OutputPath == "final_output_with_signature.pdf"

Raise(step, exception) ==
    /\ pc' = "failed"
    /\ error' = exception
    /\ trace' = Append(trace, step)

Proceed(step, next) ==
    /\ pc' = next
    /\ trace' = Append(trace, step)
    /\ UNCHANGED error

PipelineIdle ==
    /\ pc = "idle"
    /\ source_pages = <<>>
    /\ declaration_type = ""
    /\ fault = "none"
    /\ overlay = <<>>
    /\ merged_file = NoFile
    /\ output_file = NoFile
    /\ old_output_found = FALSE
    /\ images = <<>>
    /\ trace = <<>>
    /\ error = ""
    /\ returned = ""

InitPipeline ==
    /\ pc = "font"
    /\ source_pages \in SourceDocuments
    /\ declaration_type \in DeclarationTypes
    /\ fault \in Faults
    /\ overlay = <<>>
    /\ merged_file = NoFile
    /\ output_file \in {NoFile, OldOutput}
    /\ old_output_found = FALSE
    /\ images = <<>>
    /\ trace = <<>>
    /\ error = ""
    /\ returned = ""
    /\ declarator_name \in Names
    /\ id_number \in Identifiers
    /\ declarator_gender \in {Male, Female}
    /\ declaration_text_lines = <<>>
    /\ line = <<>>
    /\ current_date \in Dates
    /\ processed_line = NotCalled

\* register_hebrew_font()
RegisterFont ==
    /\ pc = "font"
    /\ IF fault = "font" THEN Raise("Font", "TTFError") ELSE Proceed("Font", "compose")
    /\ UNCHANGED <<source_pages, declaration_type, fault, overlay, merged_file,
                   output_file, old_output_found, images, returned>>
    /\ UNCHANGED <<detectVars, textVars, composerVars, guiVars>>

\* id_number[::-1] and generate_declaration_text(...)
SignCompose ==
    /\ pc = "compose"
    /\ declaration_text_lines' =
          generate_declaration_text(current_date, declarator_name, Reverse(id_number),
                                    declarator_gender)
    /\ Proceed("Composer", "render")
    /\ UNCHANGED <<source_pages, declaration_type, fault, overlay, merged_file,
                   output_file, old_output_found, images, returned>>
    /\ UNCHANGED <<detectVars, textVars, declarator_name, id_number, declarator_gender, guiVars>>

\* create_declaration_pdf: line i is drawn at y = 300 - 14 * (i - 1)
create_declaration_pdf(signature_text_lines, date) ==
    [i \in 1..Len(signature_text_lines) |->
        [text |-> process_hebrew_text(signature_text_lines[i], date),
         y |-> 300 - 14 * (i - 1)]]

SignRender ==
    /\ pc = "render"
    /\ overlay' = create_declaration_pdf(declaration_text_lines, current_date)
    /\ Proceed("Renderer", "merge")
    /\ UNCHANGED <<source_pages, declaration_type, fault, merged_file,
                   output_file, old_output_found, images, returned>>
    /\ UNCHANGED <<detectVars, textVars, composerVars, guiVars>>

\* PageMerge(first_page).add(merge_page).render(): the overlay on top
MergePage(first_page, declaration_page) ==
    [first_page EXCEPT !.layers = Append(@, [kind |-> "overlay", page |-> declaration_page])]

\* merge_pdfs: only first_page is added to the writer
Merge ==
    /\ pc = "merge"
    /\ IF fault = "source_unreadable"
       THEN Raise("Merger", "PdfParseError") /\ UNCHANGED merged_file
       ELSE IF source_pages = <<>>
       THEN Raise("Merger", "IndexError") /\ UNCHANGED merged_file
       ELSE IF fault = "write_merged"
       THEN Raise("Merger", "OSError") /\ merged_file' = BrokenFile
       ELSE /\ merged_file' = WrittenFile(<<MergePage(source_pages[1], overlay)>>)
            /\ Proceed("Merger", "remove")
    /\ UNCHANGED <<source_pages, declaration_type, fault, overlay,
                   output_file, old_output_found, images, returned>>
    /\ UNCHANGED <<detectVars, textVars, composerVars, guiVars>>

\* if os.path.isfile(output_pdf_path): os.remove(output_pdf_path)
RemoveOld_skip ==
    /\ pc = "remove"
    /\ old_output_found' = output_file.exists
    /\ Proceed("Remove", "stamp")
    /\ UNCHANGED <<source_pages, declaration_type, fault, overlay, merged_file,
                   output_file, images, returned>>
    /\ UNCHANGED <<detectVars, textVars, composerVars, guiVars>>

RemoveOld ==
    /\ pc = "remove"
    /\ old_output_found' = output_file.exists
    /\ IF output_file.exists
       THEN IF fault = "remove"
            THEN Raise("Remove", "PermissionError") /\ UNCHANGED output_file
            ELSE output_file' = NoFile /\ Proceed("Remove", "stamp")
       ELSE Proceed("Remove", "stamp") /\ UNCHANGED output_file
    /\ UNCHANGED <<source_pages, declaration_type, fault, overlay, merged_file,
                   images, returned>>
    /\ UNCHANGED <<detectVars, textVars, composerVars, guiVars>>

\* the pixels of a length at RasterDpi, rounded down or up by the rasterizer
Pixels(length, rounding) ==
    LET n == length[1] * RasterDpi
        d == length[2] * PointsPerInch * 100
    IN  IF rounding = "up" /\ n % d # 0 THEN (n \div d) + 1 ELSE n \div d

\* convert_from_path: one image per page
Rasterize(pages, rounding) ==
    [i \in 1..Len(pages) |->
        [w |-> Pixels(pages[i].w, rounding), h |-> Pixels(pages[i].h, rounding),
         layers |-> pages[i].layers, pastes |-> pages[i].pastes]]

Paste(image, asset, size, at) ==
    [image EXCEPT !.pastes = Append(@, [asset |-> asset, size |-> size, at |-> at])]

\* the if / elif chain of add_signatures: where domicar_signature is pasted
SecondaryPlacement_defaulting(type) ==
    IF type = "foreigner" THEN << <<-30, 1820>> >>
    ELSE IF type = "company" THEN << <<-30, 900>> >>
    ELSE << <<-30, 1650>> >>

SecondaryPlacement(type) ==
    IF type = "foreigner" THEN << <<-30, 1820>> >>
    ELSE IF type = "company" THEN << <<-30, 900>> >>
    ELSE IF type = "israeli" THEN << <<-30, 1650>> >>
    ELSE <<>>

RECURSIVE PasteAll(_, _, _, _)
PasteAll(image, asset, size, places) ==
    IF places = <<>> THEN image
    ELSE PasteAll(Paste(image, asset, size, Head(places)), asset, size, Tail(places))

PasteSignatures(image, type) ==
    PasteAll(Paste(image, "signature", <<600, 600>>, <<350, 1320>>),
             "domicar_signature", <<650, 650>>, SecondaryPlacement(type))

\* add_signatures up to the paste: rasterize, open the two assets, paste
Stamp_ignoring_missing_asset ==
    /\ pc = "stamp"
    /\ IF fault = "raster"
       THEN Raise("Stamper", "PDFPageCountError") /\ UNCHANGED images
       ELSE /\ \E rounding \in {"down", "up"} :
                 LET pages == Rasterize(merged_file.pages, rounding) IN
                 images' = [pages EXCEPT ![1] = PasteSignatures(@, declaration_type)]
            /\ Proceed("Stamper", "stamp_save")
    /\ UNCHANGED <<source_pages, declaration_type, fault, overlay, merged_file,
                   output_file, old_output_found, returned>>
    /\ UNCHANGED <<detectVars, textVars, composerVars, guiVars>>

Stamp ==
    /\ pc = "stamp"
    /\ IF fault = "raster"
       THEN Raise("Stamper", "PDFPageCountError") /\ UNCHANGED images
       ELSE IF fault = "asset"
       THEN /\ \E rounding \in {"down", "up"} :
                 images' = Rasterize(merged_file.pages, rounding)
            /\ Raise("Stamper", "FileNotFoundError")
       ELSE /\ \E rounding \in {"down", "up"} :
                 LET pages == Rasterize(merged_file.pages, rounding) IN
                 images' = [pages EXCEPT ![1] = PasteSignatures(@, declaration_type)]
            /\ Proceed("Stamper", "stamp_save")
    /\ UNCHANGED <<source_pages, declaration_type, fault, overlay, merged_file,
                   output_file, old_output_found, returned>>
    /\ UNCHANGED <<detectVars, textVars, composerVars, guiVars>>

\* Pillow writes one page per image, one point per pixel
Encode(imgs) ==
    [i \in 1..Len(imgs) |->
        [w |-> Int2Rat(imgs[i].w * 100), h |-> Int2Rat(imgs[i].h * 100),
         layers |-> imgs[i].layers, pastes |-> imgs[i].pastes]]

\* pages[0].save(output_pdf_path, save_all=True, append_images=pages[1:])
StampSave ==
    /\ pc = "stamp_save"
    /\ IF fault = "write_stamped"
       THEN /\ output_file' = BrokenFile
            /\ pc' = "failed"
            /\ error' = "OSError"
       ELSE /\ output_file' = WrittenFile(Encode(images))
            /\ pc' = "normalize"
            /\ UNCHANGED error
    /\ UNCHANGED <<source_pages, declaration_type, fault, overlay, merged_file,
                   old_output_found, images, trace, returned>>
    /\ UNCHANGED <<detectVars, textVars, composerVars, guiVars>>

\* page0.scale_by(factor): both dimensions by the one factor
scale_by(page, factor) ==
    [page EXCEPT !.w = RatMul(@, factor), !.h = RatMul(@, factor)]

\* adjust_pdf_size up to the write: scale_factor_height is computed and unused
ScaledPage0(pages) ==
    LET page0 == pages[1]
        scale_factor_width == RatDiv(Int2Rat(desired_width), page0.w)
        scale_factor_height == RatDiv(Int2Rat(desired_height), page0.h)
    IN  scale_by(page0, scale_factor_width)

\* adjust_pdf_size(output_pdf_path), and the return of sign_declaration
Normalize ==
    /\ pc = "normalize"
    /\ IF fault = "write_final"
       THEN /\ output_file' = BrokenFile
            /\ Raise("Normalizer", "OSError")
            /\ UNCHANGED returned
       ELSE /\ output_file' = WrittenFile(<<ScaledPage0(output_file.pages)>>)
            /\ Proceed("Normalizer", "done")
            /\ returned' = OutputPath
    /\ UNCHANGED <<source_pages, declaration_type, fault, overlay, merged_file,
                   old_output_found, images>>
    /\ UNCHANGED <<detectVars, textVars, composerVars, guiVars>>

----------------------------------------------------------------------------
(* gui.py: the form *)

MaxSubmissions == 2

NoData == [exists |-> FALSE, complete |-> FALSE, data |-> <<>>]

\* save_data: the record written to app_data.json
SavedData(name, id, gender, folder) ==
    [exists |-> TRUE, complete |-> TRUE,
     data |-> ("name" :> name) @@ ("id" :> id) @@ ("gender" :> gender)
                 @@ ("output_folder" :> folder)]

\* app_data.json opened for writing, the write failed part-way
BrokenData == [exists |-> TRUE, complete |-> FALSE, data |-> <<>>]

\* load_data
load_data(stored) == IF stored.exists THEN stored.data ELSE <<>>

\* the files the file dialog offers, with the text of their pages
FileText ==
    ("company.pdf" :> <<CompanyMarker>>)
        @@ ("foreigner.pdf" :> << <<"x","z","r","x">> >>)
        @@ ("plain.pdf" :> << <<"s","k","r">> >>)

NoCall ==
    [made |-> FALSE, name |-> "", id_number |-> "", input_pdf_path |-> "",
     output_folder |-> "", declaration_type |-> "", declarator_gender |-> ""]

GuiIdle ==
    /\ entry_name = ""
    /\ entry_id = ""
    /\ file_path = ""
    /\ output_folder = ""
    /\ radio_declaration_type_var = ""
    /\ radio_gender_var = ""
    /\ app_data = NoData
    /\ sign_call = NoCall
    /\ outcome = "none"
    /\ submissions = 0
    /\ save_count = 0
    /\ sign_count = 0

\* main() up to root.mainloop()
InitGui ==
    /\ app_data \in {NoData, SavedData("avi", "123456789", "male", "/out"),
                     SavedData("dana", "", "female", "")}
    /\ LET data == load_data(app_data) IN
          /\ file_path = ""
          /\ output_folder = Get(data, "output_folder", "")
          /\ entry_name = Get(data, "name", "")
          /\ entry_id = Get(data, "id", "")
          /\ radio_declaration_type_var = "person"
          /\ radio_gender_var = Get(data, "gender", "")
    /\ sign_call = NoCall
    /\ outcome = "none"
    /\ submissions = 0
    /\ save_count = 0
    /\ sign_count = 0

\* the user types in the Name entry
EditName ==
    /\ \E text \in {"", "avi"} : entry_name' = text
    /\ UNCHANGED <<entry_id, file_path, output_folder, radio_declaration_type_var,
                   radio_gender_var, app_data, sign_call, outcome, submissions,
                   save_count, sign_count>>
    /\ UNCHANGED <<detectVars, textVars, composerVars, pipelineVars>>

\* the user types in the ID entry
EditId ==
    /\ \E text \in {"", "123456789"} : entry_id' = text
    /\ UNCHANGED <<entry_name, file_path, output_folder, radio_declaration_type_var,
                   radio_gender_var, app_data, sign_call, outcome, submissions,
                   save_count, sign_count>>
    /\ UNCHANGED <<detectVars, textVars, composerVars, pipelineVars>>

\* radio_company, radio_person
SelectDeclarationType ==
    /\ \E value \in {"company", "person"} : radio_declaration_type_var' = value
    /\ UNCHANGED <<entry_name, entry_id, file_path, output_folder,
                   radio_gender_var, app_data, sign_call, outcome, submissions,
                   save_count, sign_count>>
    /\ UNCHANGED <<detectVars, textVars, composerVars, pipelineVars>>

\* radio_male, radio_female
SelectGender ==
    /\ \E value \in {"male", "female"} : radio_gender_var' = value
    /\ UNCHANGED <<entry_name, entry_id, file_path, output_folder,
                   radio_declaration_type_var, app_data, sign_call, outcome,
                   submissions, save_count, sign_count>>
    /\ UNCHANGED <<detectVars, textVars, composerVars, pipelineVars>>

ask_for_file ==
    /\ \E chosen \in {""} \cup DOMAIN FileText :
          /\ file_path' = chosen
          /\ IF chosen # ""
             THEN radio_declaration_type_var' = detect_declaration_type(FileText[chosen])
             ELSE UNCHANGED radio_declaration_type_var
    /\ UNCHANGED <<entry_name, entry_id, output_folder, radio_gender_var, app_data,
                   sign_call, outcome, submissions, save_count, sign_count>>
    /\ UNCHANGED <<detectVars, textVars, composerVars, pipelineVars>>

ask_for_folder ==
    /\ \E chosen \in {"", "/out"} : output_folder' = chosen
    /\ UNCHANGED <<entry_name, entry_id, file_path, radio_declaration_type_var,
                   radio_gender_var, app_data, sign_call, outcome, submissions,
                   save_count, sign_count>>
    /\ UNCHANGED <<detectVars, textVars, composerVars, pipelineVars>>

AllFilled ==
    /\ entry_name # ""
    /\ entry_id # ""
    /\ file_path # ""
    /\ output_folder # ""
    /\ radio_declaration_type_var # ""
    /\ radio_gender_var # ""

CallOfForm ==
    [made |-> TRUE, name |-> entry_name, id_number |-> entry_id,
     input_pdf_path |-> file_path, output_folder |-> output_folder,
     declaration_type |-> radio_declaration_type_var,
     declarator_gender |-> radio_gender_var]

\* on_begin_button with save_data moved after a sign_declaration that returned
on_begin_button_saving_after_signing ==
    /\ submissions < MaxSubmissions
    /\ submissions' = submissions + 1
    /\ \E saving \in {"written", "open_failed", "write_failed"},
          signing \in {"returned", "raised"} :
          IF ~AllFilled
          THEN /\ outcome' = "rejected"
               /\ UNCHANGED <<app_data, sign_call, save_count, sign_count>>
          ELSE IF signing = "raised"
          THEN /\ sign_call' = CallOfForm
               /\ sign_count' = sign_count + 1
               /\ outcome' = "sign_failed"
               /\ UNCHANGED <<app_data, save_count>>
          ELSE /\ sign_call' = CallOfForm
               /\ sign_count' = sign_count + 1
               /\ app_data' = SavedData(entry_name, entry_id, radio_gender_var, output_folder)
               /\ save_count' = save_count + 1
               /\ outcome' = "completed"
    /\ UNCHANGED <<entry_name, entry_id, file_path, output_folder,
                   radio_declaration_type_var, radio_gender_var>>
    /\ UNCHANGED <<detectVars, textVars, composerVars, pipelineVars>>

\* on_begin_button: the validation, save_data, then sign_declaration, which
\* returns the output path or raises
on_begin_button ==
    /\ submissions < MaxSubmissions
    /\ submissions' = submissions + 1
    /\ \E saving \in {"written", "open_failed", "write_failed"},
          signing \in {"returned", "raised"} :
          IF ~AllFilled
          THEN /\ outcome' = "rejected"
               /\ UNCHANGED <<app_data, sign_call, save_count, sign_count>>
          ELSE IF saving # "written"
          THEN /\ app_data' = IF saving = "write_failed" THEN BrokenData ELSE app_data
               /\ outcome' = "save_failed"
               /\ UNCHANGED <<sign_call, save_count, sign_count>>
          ELSE /\ app_data' = SavedData(entry_name, entry_id, radio_gender_var, output_folder)
               /\ save_count' = save_count + 1
               /\ sign_call' = CallOfForm
               /\ sign_count' = sign_count + 1
               /\ outcome' = IF signing = "returned" THEN "completed" ELSE "sign_failed"
    /\ UNCHANGED <<entry_name, entry_id, file_path, output_folder,
                   radio_declaration_type_var, radio_gender_var>>
    /\ UNCHANGED <<detectVars, textVars, composerVars, pipelineVars>>

----------------------------------------------------------------------------
(* Specifications *)

InitDetectSpec == InitDetect /\ TextIdle /\ ComposerIdle /\ PipelineIdle /\ GuiIdle
NextDetect == DetectCall
SpecDetect == InitDetectSpec /\ [][NextDetect]_vars

InitTextSpec == InitText /\ DetectIdle /\ ComposerIdle /\ PipelineIdle /\ GuiIdle
NextText == ProcessLine
SpecText == InitTextSpec /\ [][NextText]_vars

InitComposerSpec == InitComposer /\ DetectIdle /\ TextIdle /\ PipelineIdle /\ GuiIdle
NextComposer == Compose
SpecComposer == InitComposerSpec /\ [][NextComposer]_vars

InitPipelineSpec == InitPipeline /\ DetectIdle /\ GuiIdle
NextPipeline ==
    \/ RegisterFont
    \/ SignCompose
    \/ SignRender
    \/ Merge
    \/ RemoveOld
    \/ Stamp
    \/ StampSave
    \/ Normalize
SpecPipeline == InitPipelineSpec /\ [][NextPipeline]_vars

InitGuiSpec == InitGui /\ DetectIdle /\ TextIdle /\ ComposerIdle /\ PipelineIdle
NextGui ==
    \/ EditName
    \/ EditId
    \/ SelectDeclarationType
    \/ SelectGender
    \/ ask_for_file
    \/ ask_for_folder
    \/ on_begin_button
SpecGui == InitGuiSpec /\ [][NextGui]_vars

----------------------------------------------------------------------------
(* C1 *)

HasCompany == \E p \in 1..Len(doc) : Contains(doc[p], CompanyMarker)
HasForeigner == \E p \in 1..Len(doc) : Contains(doc[p], ForeignerMarker)

\* C1: detect_declaration_type returns 'company' whenever the company marker
\* occurs on any page, 'foreigner' only when the foreigner marker occurs and
\* the company marker occurs on no page, 'israeli' when neither occurs.
C1_CompanyOnAnyPageWins ==
    (detected # "") =>
        /\ HasCompany => detected = "company"
        /\ detected = "foreigner" => (HasForeigner /\ ~HasCompany)
        /\ (~HasCompany /\ ~HasForeigner) => detected = "israeli"

----------------------------------------------------------------------------
(* C5 *)

\* the positions at which the date occurs in the line
Occurrences(l, d) == {p \in 1..Len(l) : MatchAt(l, d, p)}

\* the line with the occurrence at p kept and the text around it reversed
ReversedAround(l, d, p) ==
    Reverse(SubSeq(l, p + Len(d), Len(l))) \o d \o Reverse(SubSeq(l, 1, p - 1))

\* C5 as stated: whatever else the line contains, each occurrence of the date
\* is kept in natural order with all text around it reversed.
C5_DateKeptRestReversed ==
    (processed_line # NotCalled) =>
        /\ \A p \in Occurrences(line, current_date) :
              processed_line = ReversedAround(line, current_date, p)
        /\ Occurrences(line, current_date) = {} => processed_line = Reverse(line)

\* C5 amended: a line in which the date occurs exactly once comes back with
\* the date in natural order and the text before and after it reversed; a
\* line without the date comes back reversed.
C5_SingleDateKeptRestReversed ==
    (processed_line # NotCalled) =>
        /\ Cardinality(Occurrences(line, current_date)) = 1 =>
              \A p \in Occurrences(line, current_date) :
                  processed_line = ReversedAround(line, current_date, p)
        /\ Occurrences(line, current_date) = {} => processed_line = Reverse(line)

C5_Witness ==
    /\ processed_line # NotCalled
    /\ Cardinality(Occurrences(line, current_date)) = 1
    /\ current_date # Reverse(current_date)
    /\ ~MatchAt(line, current_date, 1)
    /\ ~MatchAt(line, current_date, Len(line) - Len(current_date) + 1)
    /\ processed_line # Reverse(line)

----------------------------------------------------------------------------
(* C6 *)

Composed == declaration_text_lines # <<>>

\* the composed lines are the eight lines written with the given terms
ComposedWith(terms) ==
    \E date \in Dates :
        declaration_text_lines =
            declaration_text_lines_of(terms, date, declarator_name, id_number)

\* C6 as stated: every gender string other than exactly 'male' and 'female'
\* gets the male terms, and the female terms are used only for exactly 'female'.
C6_FemaleOnlyForExactValue ==
    Composed =>
        /\ Len(declaration_text_lines) = 8
        /\ declarator_gender \notin {Male, Female} => ComposedWith(MaleTerms)
        /\ ComposedWith(FemaleTerms) => declarator_gender = Female

\* C6 amended: the call always yields the eight lines; the female terms are
\* used exactly for the spellings of 'female' in any mix of upper and lower
\* case, and every other gender string gets the male terms.
C6_FemaleForAnyCase ==
    Composed =>
        /\ Len(declaration_text_lines) = 8
        /\ declarator_gender \in CaseVariants(Female) =>
              (ComposedWith(FemaleTerms) /\ ~ComposedWith(MaleTerms))
        /\ declarator_gender \notin CaseVariants(Female) =>
              (ComposedWith(MaleTerms) /\ ~ComposedWith(FemaleTerms))

C6_Witness ==
    /\ Composed
    /\ declarator_gender = <<"F","e","m","a","l","e">>
    /\ ComposedWith(FemaleTerms)

----------------------------------------------------------------------------
(* C2 *)

\* C2: a successful run of sign_declaration produces a final document with
\* the same page count as the source document.
C2_SamePageCount ==
    pc = "done" => Len(output_file.pages) = Len(source_pages)

----------------------------------------------------------------------------
(* C3 *)

\* C3: after a successful run page 0 of the output document is exactly
\* 595.28 wide and 841.89 high, whatever the size of the input page.
C3_Page0IsA4 ==
    pc = "done" =>
        /\ output_file.pages[1].w = Int2Rat(59528)
        /\ output_file.pages[1].h = Int2Rat(84189)

----------------------------------------------------------------------------
(* C4 *)

SecondaryAt(place) ==
    << [asset |-> "domicar_signature", size |-> <<650, 650>>, at |-> place] >>

ExpectedPastes ==
    <<[asset |-> "signature", size |-> <<600, 600>>, at |-> <<350, 1320>>]>>
        \o CASE declaration_type = "foreigner" -> SecondaryAt(<<-30, 1820>>)
             [] declaration_type = "company" -> SecondaryAt(<<-30, 900>>)
             [] declaration_type = "israeli" -> SecondaryAt(<<-30, 1650>>)
             [] OTHER -> <<>>

\* C4: add_signatures pastes the primary signature on page 0 at (350, 1320)
\* for every declaration_type, then the secondary signature once at
\* (-30, 1820) for 'foreigner', (-30, 900) for 'company', (-30, 1650) for
\* 'israeli' and not at all for any other value, which raises no error.
C4_SignaturePlacement ==
    /\ pc = "stamp_save" =>
          /\ images[1].pastes = ExpectedPastes
          /\ \A i \in 2..Len(images) : images[i].pastes = <<>>
    /\ (output_file.origin = "run" /\ output_file.complete) =>
          output_file.pages[1].pastes = ExpectedPastes
    /\ (pc = "failed" /\ trace[Len(trace)] = "Stamper") =>
          fault \in {"raster", "asset", "write_stamped"}

C4_Witness ==
    /\ pc = "done"
    /\ declaration_type = "person"
    /\ output_file.pages[1].pastes =
          <<[asset |-> "signature", size |-> <<600, 600>>, at |-> <<350, 1320>>]>>

----------------------------------------------------------------------------
(* C7 *)

Started(step) == \E i \in 1..Len(trace) : trace[i] = step

\* C7: an output file left by an earlier run is removed before the Stamper
\* writes: the path is empty when the write starts, never holds the old
\* content once the Stamper has started, and after a successful run holds
\* only the newly produced document.
C7_OldOutputRemovedBeforeWrite ==
    /\ pc = "stamp_save" => ~output_file.exists
    /\ Started("Stamper") => output_file.origin # "old"
    /\ pc = "done" =>
          /\ output_file.exists
          /\ output_file.origin = "run"
          /\ output_file.complete
          /\ \A i \in 1..Len(output_file.pages) :
                \A j \in 1..Len(output_file.pages[i].layers) :
                    output_file.pages[i].layers[j].kind # "old"

C7_Witness ==
    /\ pc = "done"
    /\ old_output_found
    /\ output_file.origin = "run"

----------------------------------------------------------------------------
(* C8 *)

StepOrder == <<"Font", "Composer", "Renderer", "Merger", "Remove", "Stamper", "Normalizer">>

IsPrefix(s, t) == Len(s) <= Len(t) /\ SubSeq(t, 1, Len(s)) = s

\* the step at which this run's environment makes sign_declaration fail
FailingStep ==
    IF fault = "font" THEN "Font"
    ELSE IF fault \in {"source_unreadable", "write_merged"} \/ source_pages = <<>>
    THEN "Merger"
    ELSE IF fault = "remove" /\ output_file.origin = "old" THEN "Remove"
    ELSE IF fault \in {"raster", "asset", "write_stamped"} THEN "Stamper"
    ELSE IF fault = "write_final" THEN "Normalizer"
    ELSE "none"

StepIndex(step) == CHOOSE i \in 1..Len(StepOrder) : StepOrder[i] = step

\* C8: the steps run in the one order Composer, Renderer, Merger, Stamper,
\* Normalizer (after the font registration, with the removal of the old
\* output between Merger and Stamper); the step that fails is the last one
\* to run, none is run twice, and a failed run returns no path.
C8_FailurePropagates ==
    /\ IsPrefix(trace, StepOrder)
    /\ FailingStep # "none" =>
          /\ Len(trace) <= StepIndex(FailingStep)
          /\ pc # "done"
          /\ returned = ""
    /\ pc = "failed" =>
          /\ error # ""
          /\ returned = ""
          /\ trace[Len(trace)] = FailingStep
    /\ pc = "done" =>
          /\ trace = StepOrder
          /\ error = ""
          /\ returned = OutputPath

C8_Witness ==
    /\ pc = "failed"
    /\ fault = "asset"
    /\ trace = SubSeq(StepOrder, 1, 6)
    /\ returned = ""

----------------------------------------------------------------------------
(* C9 *)

\* C9 as stated: app_data.json is written by the presses of Begin that end
\* with sign_declaration returning, and by no other; sign_declaration is not
\* called when the write fails.
C9_WrittenOnlyWhenSigned ==
    [][submissions' # submissions =>
          /\ (save_count' # save_count) <=> (outcome' = "completed")
          /\ outcome' = "save_failed" => sign_count' = sign_count]_vars

\* C9 amended: app_data.json is written by every press of Begin that passes
\* the validation and whose write succeeds, before sign_declaration is called
\* and whether sign_declaration then returns or raises; a rejected press
\* writes nothing, sign_declaration is not called when the write fails, and
\* nothing but a press of Begin writes the file.
C9_WrittenBeforeSigning ==
    [][/\ submissions' # submissions =>
             /\ (save_count' = save_count + 1) <=> (outcome' \in {"completed", "sign_failed"})
             /\ (save_count' # save_count) =>
                   app_data' = SavedData(entry_name, entry_id, radio_gender_var, output_folder)
             /\ outcome' = "rejected" => UNCHANGED <<app_data, save_count, sign_count>>
             /\ outcome' = "save_failed" => UNCHANGED <<save_count, sign_count>>
             /\ (sign_count' # sign_count) <=> (save_count' # save_count)
       /\ submissions' = submissions => UNCHANGED <<app_data, save_count, sign_count>>]_vars

C9_Witness ==
    /\ outcome = "sign_failed"
    /\ save_count = 1
    /\ sign_count = 1
    /\ app_data = SavedData(entry_name, entry_id, radio_gender_var, output_folder)

----------------------------------------------------------------------------
(* C10 *)

\* C10: every call of sign_declaration made by the form receives non-empty
\* arguments and a category that is one of 'company', 'foreigner', 'israeli'.
C10_CallHasKnownCategory ==
    sign_call.made =>
        /\ sign_call.name # ""
        /\ sign_call.id_number # ""
        /\ sign_call.input_pdf_path # ""
        /\ sign_call.output_folder # ""
        /\ sign_call.declarator_gender # ""
        /\ sign_call.declaration_type \in {"company", "foreigner", "israeli"}

====
